---- MODULE Spec2Model ----
(***************************************************************************)
(* Model of the venue finder: VenueRecommender (src/venue_recommender.py). *)
(*                                                                         *)
(* Text is modelled character by character: a Python str is a sequence of  *)
(* one-character strings, so that split, strip, count and the digit test   *)
(* do what the Python methods do.                                          *)
(*                                                                         *)
(* The coroutine _get_detailed_venue_recommendations_with_real_times is    *)
(* cut at its external calls: one action per call that returns.            *)
(***************************************************************************)
EXTENDS Integers, Sequences, FiniteSets, TLC

(***************************************************************************)
(* Python str primitives                                                   *)
(***************************************************************************)
Digits == {"0", "1", "2", "3", "4", "5", "6", "7", "8", "9"}

Whitespace == {" ", "\t", "\n", "\r"}

\* any(char.isdigit() for char in s)
HasDigit(s) == \E i \in DOMAIN s : s[i] \in Digits

\* s.count(c) for a one-character c
CountChar(s, c) == Cardinality({i \in DOMAIN s : s[i] = c})

\* s[i:] begins with sep
StartsAt(s, sep, i) ==
    /\ i + Len(sep) - 1 <= Len(s)
    /\ \A k \in 1..Len(sep) : s[i + k - 1] = sep[k]

\* s.find(sep, i - 1) + 1: index of the first occurrence from i on, 0 when
\* there is none; the scan goes 16 positions at a time
RECURSIVE FindFrom(_, _, _)
FindFrom(s, sep, i) ==
    IF i + Len(sep) - 1 > Len(s) THEN 0
    ELSE IF \E j \in i..(i + 15) : StartsAt(s, sep, j)
         THEN CHOOSE j \in i..(i + 15) :
                  StartsAt(s, sep, j) /\ \A k \in i..(j - 1) : ~StartsAt(s, sep, k)
    ELSE FindFrom(s, sep, i + 16)

\* s.find(sep) + 1
Find(s, sep) == FindFrom(s, sep, 1)

\* sep in s
Contains(s, sep) == Find(s, sep) # 0

\* s.split(sep, 1), given j = s.find(sep) + 1
SplitAt(s, sep, j) ==
    IF j = 0 THEN <<s>> ELSE <<SubSeq(s, 1, j - 1), SubSeq(s, j + Len(sep), Len(s))>>

\* s.split(sep, 1)
SplitOnce(s, sep) == SplitAt(s, sep, Find(s, sep))

\* s.split(sep), given once == s.split(sep, 1)
RECURSIVE SplitRest(_, _)
SplitRest(once, sep) ==
    IF Len(once) = 1 THEN once
    ELSE <<once[1]>> \o SplitRest(SplitOnce(once[2], sep), sep)

\* s.split(sep)
Split(s, sep) == SplitRest(SplitOnce(s, sep), sep)

\* s[j] is a whitespace character (white), is not one (~white)
IsWhite(s, j, white) == j <= Len(s) /\ (s[j] \in Whitespace) = white

\* the first index from i on whose character is (is not) whitespace, Len(s) + 1
\* when there is none; the scan goes 16 positions at a time
RECURSIVE SkipTo(_, _, _)
SkipTo(s, i, white) ==
    IF i > Len(s) THEN i
    ELSE IF \E j \in i..(i + 15) : IsWhite(s, j, white)
         THEN CHOOSE j \in i..(i + 15) :
                  IsWhite(s, j, white) /\ \A k \in i..(j - 1) : ~IsWhite(s, k, white)
    ELSE IF i + 16 > Len(s) THEN Len(s) + 1
    ELSE SkipTo(s, i + 16, white)

\* the last index up to i whose character is not whitespace, 0 when there is none
RECURSIVE LastInk(_, _)
LastInk(s, i) ==
    IF i = 0 \/ s[i] \notin Whitespace THEN i ELSE LastInk(s, i - 1)

\* s.strip()
Strip(s) == SubSeq(s, SkipTo(s, 1, FALSE), LastInk(s, Len(s)))

\* s.split() from the run of non-whitespace characters s[a..b-1] on
RECURSIVE SplitWhitespaceRun(_, _, _)
SplitWhitespaceRun(s, a, b) ==
    IF a > Len(s) THEN <<>>
    ELSE <<SubSeq(s, a, b - 1)>>
         \o SplitWhitespaceRun(s, SkipTo(s, b, FALSE), SkipTo(s, SkipTo(s, b, FALSE), TRUE))

\* s.split(): the maximal runs of non-whitespace characters
SplitWhitespace(s) ==
    SplitWhitespaceRun(s, SkipTo(s, 1, FALSE), SkipTo(s, SkipTo(s, 1, FALSE), TRUE))

\* sep.join(parts)
RECURSIVE Join(_, _)
Join(parts, sep) ==
    IF parts = <<>> THEN <<>>
    ELSE IF Len(parts) = 1 THEN parts[1]
    ELSE parts[1] \o sep \o Join(Tail(parts), sep)

\* xs[:n]
Take(xs, n) == SubSeq(xs, 1, IF Len(xs) < n THEN Len(xs) ELSE n)

\* x in xs
InSeq(x, xs) == \E i \in DOMAIN xs : xs[i] = x

(***************************************************************************)
(* Venue parsing, lines 149-197                                            *)
(***************************************************************************)
NoVenuesFound == <<"N","o"," ","v","e","n","u","e","s"," ","f","o","u","n","d">>

\* response.choices[0].message.content or "No venues found"
ContentOrDefault(content) == IF content = <<>> THEN NoVenuesFound ELSE content

\* the condition of the list comprehension of line 152
IsVenueLine(line) == Strip(line) # <<>> /\ HasDigit(line)

StripAll(lines) == [i \in DOMAIN lines |-> Strip(lines[i])]

\* the list comprehension of line 152
VenueLines(text) == StripAll(SelectSeq(Split(text, <<"\n">>), IsVenueLine))

MaxCommas == 10

MaxNumberSequences == 8

MaxLineLength == 200

\* number_sequences of line 159
NumberSequences(line) == Len(SelectSeq(SplitWhitespace(line), HasDigit))

\* line 162 with each limit excluded
AcceptLineBelow(line) ==
    /\ CountChar(line, ",") < MaxCommas
    /\ NumberSequences(line) < MaxNumberSequences
    /\ Len(line) < MaxLineLength

\* the condition of line 162
AcceptLine(line) ==
    /\ CountChar(line, ",") <= MaxCommas
    /\ NumberSequences(line) <= MaxNumberSequences
    /\ Len(line) <= MaxLineLength

\* the filter loop of lines 155-163
FilterLines(lines) == SelectSeq(lines, AcceptLine)

MaxVenues == 5

\* lines 166-167 left out: an empty filter result stays empty
OrNothing(filtered, lines) == filtered

\* lines 166-167
OrUnfiltered(filtered, lines) ==
    IF filtered = <<>> THEN Take(lines, MaxVenues) ELSE filtered

MinVenues == 3

fallback_venues ==
    << <<"T","h","e"," ","H","o","x","t","o","n"," ","H","o","l","b","o","r","n"," ","-"," ","1","9","9","-","2","0","6"," ","H","i","g","h"," ","H","o","l","b","o","r","n",","," ","H","o","l","b","o","r","n",","," ","L","o","n","d","o","n"," ","W","C","1","V"," ","7","B","D">>,
       <<"D","i","s","h","o","o","m"," ","K","i","n","g","'","s"," ","C","r","o","s","s"," ","-"," ","5"," ","S","t","a","b","l","e"," ","S","t","r","e","e","t",","," ","K","i","n","g","'","s"," ","C","r","o","s","s",","," ","L","o","n","d","o","n"," ","N","1","C"," ","4","A","B">>,
       <<"T","h","e"," ","I","v","y"," ","C","i","t","y"," ","G","a","r","d","e","n"," ","-"," ","1"," ","A","n","g","e","l"," ","C","o","u","r","t",","," ","B","a","n","k",","," ","L","o","n","d","o","n"," ","E","C","2","R"," ","7","H","J">>,
       <<"S","k","e","t","c","h"," ","-"," ","9"," ","C","o","n","d","u","i","t"," ","S","t","r","e","e","t",","," ","M","a","y","f","a","i","r",","," ","L","o","n","d","o","n"," ","W","1","S"," ","2","X","G">>,
       <<"D","u","c","k"," ","&"," ","W","a","f","f","l","e"," ","-"," ","1","1","0"," ","B","i","s","h","o","p","s","g","a","t","e",","," ","L","i","v","e","r","p","o","o","l"," ","S","t","r","e","e","t",","," ","L","o","n","d","o","n"," ","E","C","2","N"," ","4","A","Y">> >>

\* lines 180-184 without the membership test of line 183
RECURSIVE AddFallbacksUnchecked(_, _, _)
AddFallbacksUnchecked(lines, fallbacks, i) ==
    IF i > Len(fallbacks) \/ Len(lines) >= MaxVenues
    THEN lines
    ELSE AddFallbacksUnchecked(Append(lines, fallbacks[i]), fallbacks, i + 1)

\* the loop of lines 180-184 over fallbacks[i..]
RECURSIVE AddFallbacks(_, _, _)
AddFallbacks(lines, fallbacks, i) ==
    IF i > Len(fallbacks) \/ Len(lines) >= MaxVenues
    THEN lines
    ELSE IF InSeq(fallbacks[i], lines)
         THEN AddFallbacks(lines, fallbacks, i + 1)
         ELSE AddFallbacks(Append(lines, fallbacks[i]), fallbacks, i + 1)

\* lines 170-184 with the threshold of line 170 read as <= 3
TopUpAtThree(lines) ==
    IF Len(lines) <= MinVenues THEN AddFallbacks(lines, fallback_venues, 1) ELSE lines

\* lines 170-184
TopUp(lines) ==
    IF Len(lines) < MinVenues THEN AddFallbacks(lines, fallback_venues, 1) ELSE lines

\* lines 155-184 with the top-up of line 170 ahead of lines 166-167
FilteredVenueLinesTopUpFirst(lines) == OrUnfiltered(TopUp(FilterLines(lines)), lines)

\* filtered_venue_lines as the enrichment loop finds it, lines 155-184
FilteredVenueLines(lines) == TopUp(OrUnfiltered(FilterLines(lines), lines))

\* xs[-1]
Last(xs) == xs[Len(xs)]

\* lines 190-197 with every split unlimited, as if no maxsplit were given
VenueFieldsSplitAll(venue_line) ==
    IF Contains(venue_line, <<" ", "-", " ">>)
    THEN [name |-> Last(Split(Split(venue_line, <<" ", "-", " ">>)[1], <<".", " ">>)),
          address |-> Split(venue_line, <<" ", "-", " ">>)[2]]
    ELSE LET venue_part == IF Contains(venue_line, <<".", " ">>)
                           THEN Split(venue_line, <<".", " ">>)[2]
                           ELSE venue_line
         IN  [name |-> Split(venue_part, <<",">>)[1], address |-> venue_part]

\* lines 190-197: the name and the address of one venue line
VenueFields(venue_line) ==
    IF Contains(venue_line, <<" ", "-", " ">>)
    THEN [name |-> Last(SplitOnce(Split(venue_line, <<" ", "-", " ">>)[1], <<".", " ">>)),
          address |-> SplitOnce(venue_line, <<" ", "-", " ">>)[2]]
    ELSE LET venue_part == IF Contains(venue_line, <<".", " ">>)
                           THEN SplitOnce(venue_line, <<".", " ">>)[2]
                           ELSE venue_line
         IN  [name |-> Split(venue_part, <<",">>)[1], address |-> venue_part]

(***************************************************************************)
(* Deep link, lines 421-439                                                *)
(***************************************************************************)
Letters ==
    {"a","b","c","d","e","f","g","h","i","j","k","l","m","n","o","p","q","r","s","t","u","v","w","x","y","z",
     "A","B","C","D","E","F","G","H","I","J","K","L","M","N","O","P","Q","R","S","T","U","V","W","X","Y","Z"}

\* the characters urllib.parse.quote_plus leaves alone
QuoteSafe == Letters \cup Digits \cup {"_", ".", "-", "~"}

\* "%XX" for the ASCII characters the model's texts use
PercentCode(c) ==
    CASE c = "," -> <<"%", "2", "C">>
      [] c = "'" -> <<"%", "2", "7">>
      [] c = "&" -> <<"%", "2", "6">>
      [] c = "/" -> <<"%", "2", "F">>
      [] c = ":" -> <<"%", "3", "A">>
      [] c = "\n" -> <<"%", "0", "A">>
      [] c = "\t" -> <<"%", "0", "9">>
      [] c = "\r" -> <<"%", "0", "D">>

\* what quote_plus writes for one character
QuoteChar(c) ==
    IF c \in QuoteSafe THEN <<c>>
    ELSE IF c = " " THEN <<"+">>
    ELSE PercentCode(c)

\* urllib.parse.quote_plus(s[:n]), 8 characters at a time
RECURSIVE QuotePrefix(_, _)
QuotePrefix(s, n) ==
    IF n = 0 THEN <<>>
    ELSE IF n >= 8
         THEN QuotePrefix(s, n - 8)
              \o QuoteChar(s[n - 7]) \o QuoteChar(s[n - 6]) \o QuoteChar(s[n - 5])
              \o QuoteChar(s[n - 4]) \o QuoteChar(s[n - 3]) \o QuoteChar(s[n - 2])
              \o QuoteChar(s[n - 1]) \o QuoteChar(s[n])
    ELSE QuotePrefix(s, n - 1) \o QuoteChar(s[n])

\* urllib.parse.quote_plus(s)
QuotePlus(s) == QuotePrefix(s, Len(s))

GoogleModes == {"driving", "transit", "walking", "bicycling"}

\* mode_map[mode] where the mode is known, the mode as given where it is not
GoogleModeAsGiven(mode) == mode

\* mode_map.get(mode, "driving"), also google_mode_map.get(mode, "driving")
GoogleMode(mode) == IF mode \in GoogleModes THEN mode ELSE "driving"

\* _generate_google_maps_link: the parts of the f-string of line 439
GenerateGoogleMapsLink(origin, destination, mode) ==
    [base |-> "https://www.google.com/maps/dir/",
     origin_encoded |-> QuotePlus(origin),
     destination_encoded |-> QuotePlus(destination),
     query |-> "@?hl=en&travelmode=",
     google_mode |-> GoogleMode(mode)]

(***************************************************************************)
(* Directions lookup, lines 308-419                                        *)
(***************************************************************************)
\* what the outbound request of line 361 can do
NetOutcomes == {"ok", "transport_error", "http_error", "not_ok", "no_routes", "malformed"}

NoRequest == [sent |-> FALSE]

\* strftime("%I:%M %p") of a timestamp, in a zone without offset
StrftimeIMp(t) ==
    LET sod == t % 86400
        h24 == sod \div 3600
        h12 == IF h24 % 12 = 0 THEN 12 ELSE h24 % 12
    IN  <<h12, (sod % 3600) \div 60, IF h24 < 12 THEN "AM" ELSE "PM">>

Unknown == <<"Unknown">>

\* params of lines 343-359
RequestParams(origin, destination, mode, departure_time) ==
    [sent |-> TRUE, origin |-> origin, destination |-> destination,
     mode |-> GoogleMode(mode), units |-> "metric",
     departure_time |-> IF mode \in {"transit", "driving"} THEN <<departure_time>> ELSE <<>>,
     alternatives |-> mode = "transit"]

\* a degraded leg that would report a duration of 0 seconds
DegradedLegZeroSeconds(duration, route_info, origin, destination, mode) ==
    [duration |-> <<duration>>, distance |-> Unknown, route_info |-> route_info,
     departure_time |-> Unknown, arrival_time |-> Unknown,
     google_maps_link |-> GenerateGoogleMapsLink(origin, destination, mode),
     raw_duration_seconds |-> 0]

\* the dict returned on lines 321-329, 400-408 and 411-419
DegradedLeg(duration, route_info, origin, destination, mode) ==
    [duration |-> <<duration>>, distance |-> Unknown, route_info |-> route_info,
     departure_time |-> Unknown, arrival_time |-> Unknown,
     google_maps_link |-> GenerateGoogleMapsLink(origin, destination, mode)]

\* the dict returned on lines 388-397
RouteLeg(seconds, origin, destination, mode, departure_time) ==
    [duration |-> <<"duration text", seconds>>, distance |-> <<"distance text">>,
     route_info |-> "via mode",
     departure_time |-> StrftimeIMp(departure_time - seconds),
     arrival_time |-> StrftimeIMp(departure_time),
     google_maps_link |-> GenerateGoogleMapsLink(origin, destination, mode),
     raw_duration_seconds |-> seconds]

\* _get_travel_time_and_route: the leg returned, given what the network does
TravelInfo(origin, destination, mode, departure_time, key, net, seconds) ==
    IF ~key
    THEN DegradedLeg("API key not available", "Google Maps API key required",
                     origin, destination, mode)
    ELSE IF net = "ok"
    THEN RouteLeg(seconds, origin, destination, mode, departure_time)
    ELSE IF net \in {"not_ok", "no_routes"}
    THEN DegradedLeg("Route not available", "Error", origin, destination, mode)
    ELSE DegradedLeg("Error calculating time", "API Error", origin, destination, mode)

\* the request _get_travel_time_and_route sends, if any
TravelRequest(origin, destination, mode, departure_time, key) ==
    IF ~key THEN NoRequest ELSE RequestParams(origin, destination, mode, departure_time)

HasSeconds(travel_info) == "raw_duration_seconds" \in DOMAIN travel_info

(***************************************************************************)
(* Bounds of the model and the inputs drawn within them                    *)
(***************************************************************************)
\* most participants of one request
MaxPeople == 2

\* most lines in one reply of the suggestion call
MaxLines == 5

\* most external calls of one request that fail or come back empty
MaxFaults == 1

ModeList == <<"Any", "driving", "transit", "walking", "bicycling">>

LocationNames == <<"A", "B", "C", "D", "E", "F">>

\* the starting location of participant i, such as "A, X"
LocationOf(i) == <<LocationNames[i], ",", " ", "X">>

NoPreferences == [given |-> FALSE]

Preferences(list) == [given |-> TRUE, list |-> list]

\* m consecutive modes of ModeList, from position r + 1 on
ModeRun(r, m) == [k \in 1..m |-> ModeList[((r + k - 1) % Len(ModeList)) + 1]]

\* the arguments of get_recommendations with up to n participants: the
\* preferences are missing, shorter than the locations, or one per location
Requests(n) ==
    {[locations |-> [i \in 1..k |-> LocationOf(i)], transport_preferences |-> p,
      meeting_datetime |-> 68400] :
        k \in 1..n,
        p \in {NoPreferences} \cup {Preferences(ModeRun(r, m)) : r \in {0, 2, 3}, m \in 0..n}}

\* a line of the reply that names a venue, written "N. Name - Address"
VenueItem(name, address) == [kind |-> "venue", name |-> name, address |-> address]

\* any other line of the reply; digit: it contains a digit; valid: it is within
\* the three limits of the validity filter
RawItem(raw, digit, valid) == [kind |-> "raw", raw |-> raw, digit |-> digit, valid |-> valid]

ItemA == VenueItem(<<"A">>, <<"1", " ", "B", ",", " ", "C">>)

\* a name with ". " in it and an address with " - " in it
ItemStJ == VenueItem(<<"S", "t", ".", " ", "J">>, <<"2", " ", "D", " ", "-", " ", "E">>)

ItemK == VenueItem(<<"K", "&", "L">>, <<"3", " ", "M">>)

\* 12 commas
ItemCommas ==
    RawItem(<<"X", " ", "-", " ", "1", ",", "2", ",", "3", ",", "4", ",", "5", ",", "6", ",",
              "7", ",", "8", ",", "9", ",", "1", ",", "2", ",", "3", ",", "4">>, TRUE, FALSE)

ItemProse == RawItem(<<"H", "e", "r", "e", ":", " ">>, FALSE, FALSE)

\* a reply line that is one of the built-in venues
ItemSketch == RawItem(fallback_venues[4], TRUE, TRUE)

DigitChars == <<"1", "2", "3", "4", "5", "6", "7", "8", "9">>

\* the line of the reply for its i-th item
ItemLine(i, item) ==
    IF item.kind = "venue"
    THEN <<DigitChars[i], ".", " ">> \o item.name \o <<" ", "-", " ">> \o item.address
    ELSE item.raw

\* the content of the reply: its lines joined by newlines
ReplyText(items) == Join([i \in DOMAIN items |-> ItemLine(i, items[i])], <<"\n">>)

SeqsUpTo(S, n) == UNION {[1..k -> S] : k \in 0..n}

\* the replies of the suggestion call when parsing is under study
ParseReplies == SeqsUpTo({ItemA, ItemStJ, ItemCommas, ItemProse, ItemSketch}, MaxLines)

\* a reply line that holds a digit, with the number of its commas and of its
\* whitespace-delimited tokens that hold a digit
MeasuredItem(raw, commas, tokens) ==
    [kind |-> "raw", raw |-> raw, digit |-> TRUE, commas |-> commas, tokens |-> tokens,
     valid |-> commas <= 10 /\ tokens <= 8 /\ Len(raw) <= 200]

\* "1" and n commas
CommaLine(n) == MeasuredItem([k \in 1..(n + 1) |-> IF k = 1 THEN "1" ELSE ","], n, 1)

\* n tokens "1" with a space between them
TokenLine(n) == MeasuredItem([k \in 1..(2 * n - 1) |-> IF k % 2 = 1 THEN "1" ELSE " "], 0, n)

\* "1" and letters, n characters in all
LongLine(n) == MeasuredItem([k \in 1..n |-> IF k = 1 THEN "1" ELSE "a"], 0, 1)

\* n + 1 tokens "1" with ", " between them
ListLine(n) ==
    MeasuredItem([k \in 1..(3 * n + 1) |->
                     IF k % 3 = 1 THEN "1" ELSE IF k % 3 = 2 THEN "," ELSE " "], n, n + 1)

\* lines on both sides of each limit of the filter, and lines with 12 commas
MeasuredItems ==
    {CommaLine(10), CommaLine(11), CommaLine(12), TokenLine(8), TokenLine(9),
     LongLine(200), LongLine(201), ListLine(7), ListLine(12)}

MaxMeasured == 2

\* the replies of the suggestion call when the filter is under study: a
\* venue line, then up to MaxMeasured lines of MeasuredItems
FilterReplies == {<<ItemA>> \o r : r \in SeqsUpTo(MeasuredItems, MaxMeasured)}

MaxTierLines == 7

\* the replies of the suggestion call when the order of the fallbacks is under
\* study: up to MaxTierLines lines, each a venue line, a line that fails the
\* filter or a line without a digit
TierReplies == SeqsUpTo({ItemA, ItemCommas, ItemProse}, MaxTierLines)

\* a reply line that is not "N. Name - Address", with the name and the
\* address it was written with
PlainItem(raw, name, address) ==
    [kind |-> "raw", raw |-> raw, digit |-> TRUE, valid |-> TRUE,
     name |-> name, address |-> address]

\* "K&L - 3 M": no numbering
ItemUnnumbered ==
    PlainItem(<<"K", "&", "L", " ", "-", " ", "3", " ", "M">>, <<"K", "&", "L">>,
              <<"3", " ", "M">>)

\* "St. J - 2 D": no numbering, a name with ". " in it
ItemUnnumberedStJ ==
    PlainItem(<<"S", "t", ".", " ", "J", " ", "-", " ", "2", " ", "D">>,
              <<"S", "t", ".", " ", "J">>, <<"2", " ", "D">>)

\* "4. K, 3 M": numbering, no " - "
ItemNoDash ==
    PlainItem(<<"4", ".", " ", "K", ",", " ", "3", " ", "M">>, <<"K">>,
              <<"K", ",", " ", "3", " ", "M">>)

\* "K, 3 M": neither numbering nor " - "
ItemBare == PlainItem(<<"K", ",", " ", "3", " ", "M">>, <<"K">>, <<"K", ",", " ", "3", " ", "M">>)

MaxSplitLines == 3

\* the replies of the suggestion call when the field split is under study
SplitReplies ==
    SeqsUpTo({ItemA, ItemStJ, ItemUnnumbered, ItemUnnumberedStJ, ItemNoDash, ItemBare},
             MaxSplitLines)

\* the replies of the suggestion call when enrichment is under study
EnrichReplies == {<<ItemA, ItemStJ, ItemK>>, <<ItemK, ItemA, ItemStJ, ItemA, ItemK>>}

\* canned durations of the directions service: one row per venue, in the
\* order of the enrichment loop; participant i reads the row cyclically
FixtureA == << <<600, 1200>>, <<300, 300>>, <<90, 150>>, <<300, 300>>, <<150, 90>> >>

(***************************************************************************)
(* State                                                                   *)
(***************************************************************************)
VARIABLES
    openai_api_key,          \* OPENAI_API_KEY is set
    google_maps_api_key,     \* GOOGLE_MAPS_API_KEY is set
    route_seconds,           \* the durations the directions service holds
    pc,                      \* "idle", "suggest", "desc", "leg", "followup", "done"
    request,                 \* the arguments of the call in progress
    locations,
    transport_preferences,   \* after lines 52-58
    meeting_datetime,
    suggested,               \* the reply of the suggestion call, item by item
    venue_suggestions,
    venue_lines,
    filtered_venue_lines,
    venue_index,             \* position of venue_line in filtered_venue_lines[:5]
    venue_name,
    venue_address,
    venue_description,
    person_index,            \* i + 1 of line 229
    travel_details,
    total_duration_seconds,
    max_duration_seconds,
    detailed_results,
    travel_info,             \* what the last directions lookup returned
    lookup,                  \* its arguments and what the network did
    http_request,            \* the request it sent, if any
    followup_prompt,         \* which prompt _handle_followup_async built
    text_calls,              \* chat.completions.create calls issued
    directions_calls,        \* _get_travel_time_and_route calls made
    http_requests,           \* requests.get calls issued
    faults,                  \* external calls that failed or came back empty
    result,                  \* what the call in progress returned
    recommendations,         \* st.session_state.recommendations
    venue_locations,         \* st.session_state.venue_locations
    conversation_history,    \* st.session_state.conversation_history
    submission               \* the form this run of main() was submitted with

env_vars == <<openai_api_key, google_maps_api_key, route_seconds>>

request_vars == <<request, locations, transport_preferences, meeting_datetime>>

parse_vars == <<suggested, venue_suggestions, venue_lines, filtered_venue_lines>>

venue_vars == <<venue_index, venue_name, venue_address>>

leg_vars == <<person_index, travel_details, total_duration_seconds, max_duration_seconds>>

lookup_vars == <<travel_info, lookup, http_request, directions_calls, http_requests>>

session_vars == <<recommendations, venue_locations, conversation_history>>

main_vars == <<session_vars, submission>>

vars == <<env_vars, pc, request_vars, parse_vars, venue_vars, venue_description, leg_vars,
          detailed_results, lookup_vars, followup_prompt, text_calls, faults, result,
          main_vars>>

NoResult == [kind |-> "none"]

NoLookup == [made |-> FALSE]

\* no form was submitted in this run of main()
NoSubmission == [form |-> "none", verdict |-> "none"]

InitWith(fixtures) ==
    /\ openai_api_key \in BOOLEAN
    /\ google_maps_api_key \in BOOLEAN
    /\ route_seconds \in fixtures
    /\ pc = "idle"
    /\ request = [operation |-> "none"]
    /\ locations = <<>>
    /\ transport_preferences = <<>>
    /\ meeting_datetime = 0
    /\ suggested = <<>>
    /\ venue_suggestions = <<>>
    /\ venue_lines = <<>>
    /\ filtered_venue_lines = <<>>
    /\ venue_index = 0
    /\ venue_name = <<>>
    /\ venue_address = <<>>
    /\ venue_description = ""
    /\ person_index = 0
    /\ travel_details = <<>>
    /\ total_duration_seconds = 0
    /\ max_duration_seconds = 0
    /\ detailed_results = <<>>
    /\ travel_info = NoLookup
    /\ lookup = NoLookup
    /\ http_request = NoRequest
    /\ followup_prompt = "none"
    /\ text_calls = 0
    /\ directions_calls = 0
    /\ http_requests = 0
    /\ faults = 0
    /\ result = NoResult
    /\ recommendations = NoResult
    /\ venue_locations = <<>>
    /\ conversation_history = <<>>
    /\ submission = NoSubmission

Init == InitWith({FixtureA})

(***************************************************************************)
(* get_recommendations, lines 27-73, up to the suggestion call of line 139 *)
(***************************************************************************)
\* the while loop of lines 57-58
RECURSIVE PadDriving(_, _)
PadDriving(list, n) ==
    IF Len(list) < n THEN PadDriving(Append(list, "driving"), n) ELSE list

\* lines 53-58
NormalisePreferences(preferences, n) ==
    IF ~preferences.given
    THEN [i \in 1..n |-> "driving"]
    ELSE PadDriving(preferences.list, n)

ErrorResult(text) == [kind |-> "error", text |-> text]

\* line 91 never taken
KeyNotFoundIgnored(api_key) == FALSE

\* "if not openai_api_key" of line 91
KeyNotFound(api_key) == ~api_key

GetRecommendations(requests) ==
    /\ pc = "idle"
    /\ \E r \in requests :
        /\ request' = [operation |-> "get_recommendations", args |-> r]
        /\ locations' = r.locations
        /\ transport_preferences' =
               NormalisePreferences(r.transport_preferences, Len(r.locations))
        /\ meeting_datetime' = r.meeting_datetime
    /\ IF KeyNotFound(openai_api_key)
       THEN /\ result' = ErrorResult("OPENAI_API_KEY not found in environment variables.")
            /\ pc' = "done"
            /\ text_calls' = text_calls
       ELSE /\ result' = result
            /\ pc' = "suggest"
            /\ text_calls' = text_calls + 1
    /\ UNCHANGED <<main_vars, env_vars, parse_vars, venue_vars, venue_description, leg_vars,
                   detailed_results, lookup_vars, followup_prompt, faults>>

(***************************************************************************)
(* The suggestion call returns: lines 149-208, up to the description call  *)
(* of line 211 for the first venue                                         *)
(***************************************************************************)
\* a loop of line 188 over every line, without the [:5]
LoopLinesAll(lines) == lines

\* filtered_venue_lines[:5] of line 188
LoopLines(lines) == Take(lines, MaxVenues)

SuggestionReturns(replies) ==
    /\ pc = "suggest"
    /\ \/ \E items \in replies :
            \* each value is bound once, in the order the code computes it
            \E text \in {ContentOrDefault(ReplyText(items))} :
            \E lines \in {VenueLines(text)} :
            \E filtered \in {FilteredVenueLines(lines)} :
            \E fields \in {VenueFields(LoopLines(filtered)[1])} :
                /\ suggested' = items
                /\ venue_suggestions' = text
                /\ venue_lines' = lines
                /\ filtered_venue_lines' = filtered
                /\ venue_index' = 1
                /\ venue_name' = fields.name
                /\ venue_address' = fields.address
                /\ text_calls' = text_calls + 1
                /\ pc' = "desc"
                /\ UNCHANGED result
       \/ /\ result' = ErrorResult("Error getting detailed recommendations")
          /\ pc' = "done"
          /\ UNCHANGED <<parse_vars, venue_vars, text_calls>>
    /\ UNCHANGED <<main_vars, env_vars,
                   request_vars, venue_description, leg_vars, detailed_results,
                   lookup_vars, followup_prompt, faults>>

(***************************************************************************)
(* The description call returns: lines 220-228. Every request of the model *)
(* has a participant, so the loop of line 229 is entered.                  *)
(***************************************************************************)
DescriptionOutcomes(budget) ==
    {"reply"} \cup (IF faults < budget THEN {"empty", "raise"} ELSE {})

\* lines 220-222
Description(outcome) ==
    CASE outcome = "reply" -> "description"
      [] outcome = "empty" -> "Great venue for your meetup."
      [] outcome = "raise" -> "Excellent venue in a convenient location."

\* lines 210-222 as they would be with the call made again after a failure
DescriptionRetried(budget) ==
    /\ pc = "desc"
    /\ \E outcome \in DescriptionOutcomes(budget) :
        /\ venue_description' = Description(outcome)
        /\ faults' = IF outcome = "reply" THEN faults ELSE faults + 1
        /\ text_calls' = IF outcome = "reply" THEN text_calls ELSE text_calls + 1
    /\ travel_details' = <<>>
    /\ total_duration_seconds' = 0
    /\ max_duration_seconds' = 0
    /\ person_index' = 1
    /\ pc' = "leg"
    /\ UNCHANGED <<main_vars, env_vars, request_vars, parse_vars, venue_vars, detailed_results,
                   lookup_vars, followup_prompt, result>>

DescriptionReturns(budget) ==
    /\ pc = "desc"
    /\ \E outcome \in DescriptionOutcomes(budget) :
        /\ venue_description' = Description(outcome)
        /\ faults' = IF outcome = "reply" THEN faults ELSE faults + 1
    /\ travel_details' = <<>>
    /\ total_duration_seconds' = 0
    /\ max_duration_seconds' = 0
    /\ person_index' = 1
    /\ pc' = "leg"
    /\ UNCHANGED <<main_vars, env_vars, request_vars, parse_vars, venue_vars, detailed_results,
                   lookup_vars, followup_prompt, text_calls, result>>

(***************************************************************************)
(* One directions lookup returns: lines 229-254; after the last one of a   *)
(* venue, lines 256-279 and the next venue's lines 188-208; after the last *)
(* venue, lines 282-303                                                    *)
(***************************************************************************)
FailedOutcomes == NetOutcomes \ {"ok"}

\* what the network may do to the request of this lookup
LookupOutcomes(budget) ==
    IF ~google_maps_api_key THEN {"none"}
    ELSE {"ok"} \cup (IF faults < budget THEN FailedOutcomes ELSE {})

\* the duration the service holds for participant i and the venue at position j
RouteSeconds(j, i) ==
    LET row == route_seconds[j] IN row[((i - 1) % Len(row)) + 1]

\* a loop of line 229 that would stop one participant early
ZipLengthLessOne == IF Len(locations) > 1 THEN Len(locations) - 1 ELSE 1

\* len(list(zip(locations, transport_preferences)))
ZipLength == IF Len(locations) < Len(transport_preferences)
             THEN Len(locations) ELSE Len(transport_preferences)

\* line 231 without the resolution of "Any"
ActualTransportAsGiven(transport) == transport

\* line 231
ActualTransport(transport) == IF transport # "Any" THEN transport ELSE "driving"

\* lines 251-254: total_duration_seconds after a leg
AddDuration(total, info) ==
    IF HasSeconds(info) THEN total + info.raw_duration_seconds ELSE total

\* lines 251-254: max_duration_seconds after a leg
MaxDuration(max, info) ==
    IF HasSeconds(info) /\ info.raw_duration_seconds > max
    THEN info.raw_duration_seconds ELSE max

\* line 257 rounding to the nearest minute instead of truncating
AvgTimeMinutesRounded(total, people) ==
    IF total > 0 THEN ((total \div people) + 30) \div 60 ELSE 0

\* line 257
AvgTimeMinutes(total, people) == IF total > 0 THEN (total \div people) \div 60 ELSE 0

\* line 258
MaxTimeMinutes(max) == IF max > 0 THEN max \div 60 ELSE 0

\* line 261 with the weights of maximum and sum exchanged
SuitabilityScoreSwapped(max, total) == 2 * max + 3 * total

\* line 261, doubled: (max_duration_seconds * 1.5) + total_duration_seconds is
\* half of this integer
SuitabilityScoreTimes2(max, total) == 3 * max + 2 * total

\* lines 264-279: the tuple appended to detailed_results
VenueResult(name, address, description, details, total, max, people) ==
    [suitability_score_times2 |-> SuitabilityScoreTimes2(max, total),
     venue_recommendation |->
        [venue_name |-> name, venue_address |-> address,
         venue_description |-> description, travel_details |-> details,
         avg_time_minutes |-> AvgTimeMinutes(total, people),
         max_time_minutes |-> MaxTimeMinutes(max)]]

\* an insertion that puts e in front of the elements of equal key (not stable)
InsertBeforeEqual(sorted, e) ==
    LET k == Cardinality({i \in DOMAIN sorted :
                 sorted[i].suitability_score_times2 < e.suitability_score_times2})
    IN  SubSeq(sorted, 1, k) \o <<e>> \o SubSeq(sorted, k + 1, Len(sorted))

\* list.sort(key=lambda x: x[0]) keeps equal keys in their order: e goes
\* behind every element whose key is not larger
InsertByScore(sorted, e) ==
    LET k == Cardinality({i \in DOMAIN sorted :
                 sorted[i].suitability_score_times2 <= e.suitability_score_times2})
    IN  SubSeq(sorted, 1, k) \o <<e>> \o SubSeq(sorted, k + 1, Len(sorted))

\* line 282
RECURSIVE SortByScore(_)
SortByScore(results) ==
    IF results = <<>> THEN <<>>
    ELSE InsertByScore(SortByScore(SubSeq(results, 1, Len(results) - 1)),
                       results[Len(results)])

\* lines 285-303
Document(results, people) ==
    [kind |-> "document", people |-> people,
     blocks |-> [k \in DOMAIN results |-> results[k].venue_recommendation]]

LookupReturns(budget) ==
    /\ pc = "leg"
    /\ \E net \in LookupOutcomes(budget) :
        LET i == person_index
            location == locations[i]
            transport == transport_preferences[i]
            actual_transport == ActualTransport(transport)
            info == TravelInfo(location, venue_address, actual_transport, meeting_datetime,
                               google_maps_api_key, net, RouteSeconds(venue_index, i))
            detail == [person_number |-> i, transport |-> transport,
                       actual_transport |-> actual_transport, travel_info |-> info]
            details == Append(travel_details, detail)
            total == AddDuration(total_duration_seconds, info)
            max == MaxDuration(max_duration_seconds, info)
            results == Append(detailed_results,
                              VenueResult(venue_name, venue_address, venue_description,
                                          details, total, max, Len(locations)))
            loop_lines == LoopLines(filtered_venue_lines)
        IN  /\ travel_info' = info
            /\ lookup' = [made |-> TRUE, origin |-> location, destination |-> venue_address,
                          mode |-> actual_transport, departure_time |-> meeting_datetime,
                          net |-> net]
            /\ http_request' = TravelRequest(location, venue_address, actual_transport,
                                             meeting_datetime, google_maps_api_key)
            /\ directions_calls' = directions_calls + 1
            /\ http_requests' = IF google_maps_api_key THEN http_requests + 1 ELSE http_requests
            /\ faults' = IF net \in FailedOutcomes THEN faults + 1 ELSE faults
            /\ travel_details' = details
            /\ total_duration_seconds' = total
            /\ max_duration_seconds' = max
            /\ IF i < ZipLength
               THEN /\ person_index' = i + 1
                    /\ UNCHANGED <<pc, venue_vars, detailed_results, text_calls, result>>
               ELSE /\ person_index' = person_index
                    /\ IF venue_index < Len(loop_lines)
                       THEN LET fields == VenueFields(loop_lines[venue_index + 1])
                            IN  /\ detailed_results' = results
                                /\ venue_index' = venue_index + 1
                                /\ venue_name' = fields.name
                                /\ venue_address' = fields.address
                                /\ text_calls' = text_calls + 1
                                /\ pc' = "desc"
                                /\ UNCHANGED result
                       ELSE /\ detailed_results' = SortByScore(results)
                            /\ result' = Document(SortByScore(results), Len(locations))
                            /\ pc' = "done"
                            /\ UNCHANGED <<venue_vars, text_calls>>
    /\ UNCHANGED <<main_vars, env_vars,
                   request_vars, parse_vars, venue_description, followup_prompt>>

(***************************************************************************)
(* handle_followup_query, lines 441-507                                    *)
(***************************************************************************)
\* the contexts a follow-up is asked with: empty, blank, and a previous document
FollowupContexts == {<<>>, <<" ", "\n">>, <<"#", " ", "V">>}

\* lines 473-492: which of the two prompts is built
FollowupPrompt(context) == IF Strip(context) # <<>> THEN "with_context" ELSE "no_context"

HandleFollowupQuery ==
    /\ pc = "idle"
    /\ \E context \in FollowupContexts :
        /\ request' = [operation |-> "handle_followup_query", context |-> context]
        /\ IF ~openai_api_key
           THEN /\ result' = ErrorResult("OPENAI_API_KEY not found. Please check your .env file configuration.")
                /\ pc' = "done"
                /\ UNCHANGED <<followup_prompt, text_calls>>
           ELSE /\ followup_prompt' = FollowupPrompt(context)
                /\ text_calls' = text_calls + 1
                /\ pc' = "followup"
                /\ UNCHANGED result
    /\ UNCHANGED <<main_vars, env_vars,
                   locations, transport_preferences, meeting_datetime, parse_vars,
                   venue_vars, venue_description, leg_vars, detailed_results, lookup_vars,
                   faults>>

\* lines 504-507
FollowupResult(outcome) ==
    CASE outcome = "reply" -> [kind |-> "answer", text |-> "generated answer"]
      [] outcome = "empty" -> [kind |-> "answer", text |-> "No response received from API"]
      [] outcome = "raise" -> ErrorResult("Error processing question")

FollowupReturns ==
    /\ pc = "followup"
    /\ \E outcome \in {"reply", "empty", "raise"} : result' = FollowupResult(outcome)
    /\ pc' = "done"
    /\ UNCHANGED <<main_vars, env_vars, request_vars, parse_vars, venue_vars, venue_description,
                   leg_vars, detailed_results, lookup_vars, followup_prompt, text_calls,
                   faults>>

(***************************************************************************)
(* An exception in the try block of lines 94-304, outside the inner try of *)
(* lines 210-222 and outside _get_travel_time_and_route, which catch their *)
(* own: building a prompt (200-208), formatting a leg (240-248), scoring   *)
(* (256-279), sorting and rendering (282-303)                              *)
(***************************************************************************)
\* the exception leaves get_recommendations uncaught
Propagated == [kind |-> "raised"]

\* lines 305-306: except Exception as e: return f"... Error getting detailed
\* recommendations: {str(e)}"
Caught == ErrorResult("Error getting detailed recommendations")

Raises ==
    /\ pc \in {"desc", "leg"}
    /\ result' = Caught
    /\ pc' = "done"
    /\ UNCHANGED <<main_vars, env_vars, request_vars, parse_vars, venue_vars, venue_description,
                   leg_vars, detailed_results, lookup_vars, followup_prompt, text_calls,
                   faults>>

(***************************************************************************)
(* Specifications                                                          *)
(***************************************************************************)
\* the requests of up to MaxPeople participants
SpecRequests == Requests(MaxPeople)

Next ==
    \/ GetRecommendations(SpecRequests)
    \/ SuggestionReturns(EnrichReplies)
    \/ DescriptionReturns(MaxFaults)
    \/ LookupReturns(MaxFaults)
    \/ HandleFollowupQuery
    \/ FollowupReturns

\* every request, a few replies of the suggestion call, every way the calls
\* of the enrichment loop can go within MaxFaults
Spec == Init /\ [][Next]_vars

FaultNext == Next \/ Raises

\* Spec, with an exception possible at every step of the enrichment loop
FaultSpec == Init /\ [][FaultNext]_vars

\* a call to the text service or to the directions service is outstanding
Waiting == pc \in {"suggest", "desc", "leg"}

\* FaultSpec, where each call that was made returns, with a reply or a failure:
\* weak fairness of the steps taken while Waiting, written with Waiting in the
\* place of their enabling condition (an outstanding call always has an outcome)
LiveSpec == FaultSpec /\ ([]<>~Waiting \/ []<><<Waiting>>_vars)

(***************************************************************************)
(* _get_travel_time_and_route called on its own, lines 308-419             *)
(***************************************************************************)
MaxDirect == 2

DirectOrigins ==
    {<<"A", ",", " ", "B">>, <<"K", "&", "L">>, <<"a", "/", "b", ":", "'", "s">>}

DirectDestinations ==
    {<<"C", ",", " ", "D">>, <<"1", " ", "M">>, <<"x", "\t", "y", "\n", "z", "\r">>}

\* the four modes of the service, "Any" and a mode the service does not know
DirectModes == {"driving", "transit", "walking", "bicycling", "Any", "cycling"}

GetTravelTimeAndRoute ==
    /\ pc = "idle"
    /\ directions_calls < MaxDirect
    /\ \E origin \in DirectOrigins, destination \in DirectDestinations, mode \in DirectModes,
          net \in (IF google_maps_api_key THEN NetOutcomes ELSE {"none"}) :
        /\ travel_info' = TravelInfo(origin, destination, mode, 68400, google_maps_api_key,
                                     net, RouteSeconds(1, 1))
        /\ lookup' = [made |-> TRUE, origin |-> origin, destination |-> destination,
                      mode |-> mode, departure_time |-> 68400, net |-> net]
        /\ http_request' = TravelRequest(origin, destination, mode, 68400,
                                         google_maps_api_key)
    /\ directions_calls' = directions_calls + 1
    /\ http_requests' = IF google_maps_api_key THEN http_requests + 1 ELSE http_requests
    /\ UNCHANGED <<main_vars, env_vars,
                   pc, request_vars, parse_vars, venue_vars, venue_description,
                   leg_vars, detailed_results, followup_prompt, text_calls, faults, result>>

DirectNext == GetTravelTimeAndRoute

\* up to MaxDirect lookups, each with any origin, destination, mode and outcome
DirectSpec == Init /\ [][DirectNext]_vars

ParseInit == InitWith({FixtureA}) /\ openai_api_key /\ google_maps_api_key

\* one participant, no preferences given
ParseRequests == {r \in Requests(1) : ~r.transport_preferences.given}

ParseNext ==
    \/ GetRecommendations(ParseRequests)
    \/ SuggestionReturns(ParseReplies)
    \/ DescriptionReturns(0)
    \/ LookupReturns(0)

\* every reply of the suggestion call within MaxLines, with both keys set and
\* every later call succeeding
ParseSpec == ParseInit /\ [][ParseNext]_vars

TierNext ==
    \/ GetRecommendations(ParseRequests)
    \/ SuggestionReturns(TierReplies)
    \/ DescriptionReturns(0)
    \/ LookupReturns(0)

\* the replies of TierReplies, with both keys set and every later call
\* succeeding
TierSpec == ParseInit /\ [][TierNext]_vars

SplitNext ==
    \/ GetRecommendations(ParseRequests)
    \/ SuggestionReturns(SplitReplies)
    \/ DescriptionReturns(0)
    \/ LookupReturns(0)

\* the replies of SplitReplies, with both keys set and every later call
\* succeeding
SplitSpec == ParseInit /\ [][SplitNext]_vars

FilterNext ==
    \/ GetRecommendations(ParseRequests)
    \/ SuggestionReturns(FilterReplies)
    \/ DescriptionReturns(0)
    \/ LookupReturns(0)

\* the replies of FilterReplies, with both keys set and every later call
\* succeeding
FilterSpec == ParseInit /\ [][FilterNext]_vars

(***************************************************************************)
(* main.py: the session state of lines 25-47, the venue form of lines      *)
(* 305-350 and the follow-up form of lines 370-437. A run of main() that   *)
(* handles a submission blocks in the recommender's call; the steps of the *)
(* call are the recommender's actions above.                               *)
(***************************************************************************)
MaxTurns == 4

\* st.session_state.num_users, line 43
NumUsers == 2

\* a text input left empty apart from blanks
BlankInput == <<" ">>

VenueForm(l, s, a) ==
    [locations |-> l, transport_preferences |-> <<"Any", "transit">>,
     specify_area |-> s, meeting_area |-> a, activity |-> <<"A", "n", "y">>,
     mood |-> "Any", notes |-> <<>>, meeting_datetime |-> 68400]

\* the venue forms submitted: with every location filled, the area asked for
\* or not, given or not; with a location blank or every location empty
VenueForms ==
    {VenueForm(<<LocationOf(1), LocationOf(2)>>, s, a) :
        s \in BOOLEAN, a \in {BlankInput, <<"S", "o">>}}
    \cup {VenueForm(l, FALSE, BlankInput) :
        l \in {<<LocationOf(1), BlankInput>>, <<<<>>, <<>>>>}}

\* the follow-up questions submitted
FollowupQueries == {<<>>, BlankInput, <<"Q", "?">>}

\* the reply of the suggestion call in a session
SessionReplies == {<<ItemA, ItemStJ, ItemK>>}

IsFilled(text) == Strip(text) # <<>>

\* line 307
ValidLocations(form) == SelectSeq(Take(form.locations, NumUsers), IsFilled)

\* line 308
ValidTransportPrefs(form) == Take(form.transport_preferences, NumUsers)

\* lines 310-317: which branch a submitted venue form takes
ValidateVenueForm(form) ==
    IF Len(ValidLocations(form)) < NumUsers THEN "missing location"
    ELSE IF form.specify_area /\ ~IsFilled(form.meeting_area) THEN "empty area"
    ELSE IF ~IsFilled(form.activity) THEN "no activity"
    ELSE "accepted"

\* line 386: followup_submitted and followup_query.strip()
ValidateFollowup(query) == IF IsFilled(query) THEN "accepted" ELSE "empty question"

\* lines 321-329: the arguments main() calls get_recommendations with
RecommenderArgs(form) ==
    [locations |-> ValidLocations(form),
     transport_preferences |-> Preferences(ValidTransportPrefs(form)),
     meeting_datetime |-> form.meeting_datetime]

\* "if st.session_state.recommendations" of line 370: the empty string of
\* line 36 is NoResult here, everything get_recommendations returns is not empty
Truthy(text) == text.kind # "none"

\* lines 49-63: one match of venue_pattern for each block of the document,
\* none in an error string. Every venue of a session has a name and an
\* address, so each group of the pattern is the field of the block.
ExtractVenueLocations(text) ==
    IF text.kind # "document" THEN <<>>
    ELSE [k \in DOMAIN text.blocks |->
             [name |-> Strip(text.blocks[k].venue_name),
              address |-> Strip(text.blocks[k].venue_address)]]

\* lines 337-347
QueryTurn(form, response) ==
    [type |-> "query",
     locations |-> ValidLocations(form),
     meeting_area |-> IF form.specify_area THEN form.meeting_area
                      ELSE <<"Geographic center">>,
     activity |-> form.activity,
     mood |-> form.mood,
     notes |-> form.notes,
     meeting_datetime |-> form.meeting_datetime,
     transport_preferences |-> ValidTransportPrefs(form),
     response |-> response]

\* lines 430-434
FollowupTurn(query, response) == [type |-> "followup", query |-> query, response |-> response]

\* a store that would keep only the latest turn
ReplaceTurns(history, turn) == <<turn>>

\* conversation_history.append of lines 337 and 430
AppendTurn(history, turn) == Append(history, turn)

\* a scan from the front of the history: the position of the first query
\* turn, 0 if there is none
EarliestQuery(history) ==
    LET queries == {i \in DOMAIN history : history[i].type = "query"}
    IN  IF queries = {} THEN 0 ELSE CHOOSE i \in queries : \A j \in queries : i <= j

\* "for interaction in reversed(...)" of line 407: the position of the latest
\* query turn, 0 if there is none
LatestQuery(history) ==
    LET queries == {i \in DOMAIN history : history[i].type = "query"}
    IN  IF queries = {} THEN 0 ELSE CHOOSE i \in queries : \A j \in queries : j <= i

\* context = "" of line 390
EmptyContext == [heading |-> ""]

\* the f-string of lines 394-404 and 409-418, part by part
ContextOf(interaction) ==
    [heading |-> "PREVIOUS VENUE RECOMMENDATIONS:",
     locations |-> Join(interaction.locations, <<",", " ">>),
     activity |-> interaction.activity,
     mood |-> interaction.mood,
     meeting_area |-> interaction.meeting_area,
     meeting_datetime |-> interaction.meeting_datetime,
     response |-> interaction.response]

\* lines 390-419: the context is built from the last turn if it is a query,
\* from the first query met going backwards if the last turn is a follow-up,
\* and stays empty otherwise
FollowupContext(history) ==
    IF history = <<>> THEN EmptyContext
    ELSE IF Last(history).type = "query" THEN ContextOf(Last(history))
    ELSE IF Last(history).type = "followup" /\ LatestQuery(history) # 0
         THEN ContextOf(history[LatestQuery(history)])
    ELSE EmptyContext

\* the context as the text handle_followup_query receives: empty, or a text
\* that begins with the heading, for which the document of FollowupContexts
\* stands
ContextText(context) == IF context.heading = "" THEN <<>> ELSE <<"#", " ", "V">>

\* the call has returned to main(): its locals are gone, and the counters of
\* the calls it issued start again with the next call
CallReturned ==
    /\ pc' = "idle"
    /\ request' = [operation |-> "none"]
    /\ locations' = <<>>
    /\ transport_preferences' = <<>>
    /\ meeting_datetime' = 0
    /\ suggested' = <<>>
    /\ venue_suggestions' = <<>>
    /\ venue_lines' = <<>>
    /\ filtered_venue_lines' = <<>>
    /\ venue_index' = 0
    /\ venue_name' = <<>>
    /\ venue_address' = <<>>
    /\ venue_description' = ""
    /\ person_index' = 0
    /\ travel_details' = <<>>
    /\ total_duration_seconds' = 0
    /\ max_duration_seconds' = 0
    /\ detailed_results' = <<>>
    /\ travel_info' = NoLookup
    /\ lookup' = NoLookup
    /\ http_request' = NoRequest
    /\ followup_prompt' = "none"
    /\ text_calls' = 0
    /\ directions_calls' = 0
    /\ http_requests' = 0
    /\ faults' = 0
    /\ result' = NoResult
    /\ UNCHANGED env_vars

\* no call is in progress and no accepted form waits for its call
AtRest == pc = "idle" /\ submission.verdict # "accepted"

\* lines 305-317: the venue form is submitted and validated
SubmitVenueForm(forms) ==
    /\ AtRest
    /\ \E form \in forms :
        /\ ValidateVenueForm(form) = "accepted" => Len(conversation_history) < MaxTurns
        /\ submission' = [form |-> "venue_form", fields |-> form,
                          verdict |-> ValidateVenueForm(form)]
    /\ UNCHANGED <<session_vars, env_vars, pc, request_vars, parse_vars, venue_vars,
                   venue_description, leg_vars, detailed_results, lookup_vars,
                   followup_prompt, text_calls, faults, result>>

\* lines 318-329: the else branch calls get_recommendations
CallGetRecommendations ==
    /\ submission.form = "venue_form"
    /\ submission.verdict = "accepted"
    /\ GetRecommendations({RecommenderArgs(submission.fields)})

\* lines 331-350: the call has returned, or raised (line 349)
StoreRecommendations ==
    /\ pc = "done"
    /\ submission.form = "venue_form"
    /\ IF result.kind = "raised"
       THEN UNCHANGED session_vars
       ELSE /\ recommendations' = result
            /\ venue_locations' = ExtractVenueLocations(result)
            /\ conversation_history' =
                   AppendTurn(conversation_history, QueryTurn(submission.fields, result))
    /\ submission' = NoSubmission
    /\ CallReturned

\* lines 370-419: the follow-up form is on the page once recommendations are
\* stored; it is submitted, the question is looked at and, if there is one,
\* the context is built
SubmitFollowupForm(queries) ==
    /\ AtRest
    /\ Truthy(recommendations)
    /\ \E followup_query \in queries :
        /\ ValidateFollowup(followup_query) = "accepted" =>
               Len(conversation_history) < MaxTurns
        /\ submission' =
               IF ValidateFollowup(followup_query) = "accepted"
               THEN [form |-> "followup_form", fields |-> followup_query,
                     verdict |-> "accepted",
                     context |-> FollowupContext(conversation_history)]
               ELSE [form |-> "followup_form", fields |-> followup_query,
                     verdict |-> ValidateFollowup(followup_query)]
    /\ UNCHANGED <<session_vars, env_vars, pc, request_vars, parse_vars, venue_vars,
                   venue_description, leg_vars, detailed_results, lookup_vars,
                   followup_prompt, text_calls, faults, result>>

\* lines 421-424: handle_followup_query is called with the context
CallHandleFollowupQuery ==
    /\ submission.form = "followup_form"
    /\ submission.verdict = "accepted"
    /\ HandleFollowupQuery
    /\ request'.context = ContextText(submission.context)

\* lines 426-437: the call has returned, or raised (line 436)
StoreFollowup ==
    /\ pc = "done"
    /\ submission.form = "followup_form"
    /\ IF result.kind = "raised"
       THEN UNCHANGED conversation_history
       ELSE conversation_history' =
                AppendTurn(conversation_history, FollowupTurn(submission.fields, result))
    /\ UNCHANGED <<recommendations, venue_locations>>
    /\ submission' = NoSubmission
    /\ CallReturned

SessionNext ==
    \/ SubmitVenueForm(VenueForms)
    \/ CallGetRecommendations
    \/ SuggestionReturns(SessionReplies)
    \/ DescriptionReturns(0)
    \/ LookupReturns(0)
    \/ StoreRecommendations
    \/ SubmitFollowupForm(FollowupQueries)
    \/ CallHandleFollowupQuery
    \/ FollowupReturns
    \/ StoreFollowup

\* one session: venue forms and follow-up forms submitted in any order, up to
\* MaxTurns of them accepted, every call of the enrichment loop succeeding
SessionSpec == Init /\ [][SessionNext]_vars

(***************************************************************************)
(* What the reply of the suggestion call holds, read off its items and not *)
(* off the parser                                                          *)
(***************************************************************************)
\* the item's line is within the three limits of the validity filter
ItemValid(item) == item.kind = "venue" \/ item.valid

\* the item's line contains a digit
ItemDigit(item) == item.kind = "venue" \/ item.digit

\* the positions of the reply, in order
Positions == [i \in DOMAIN suggested |-> i]

\* the lines of the items at the given positions of the reply
ItemLines(positions) ==
    [k \in DOMAIN positions |-> ItemLine(positions[k], suggested[positions[k]])]

ValidLines == ItemLines(SelectSeq(Positions, LAMBDA i : ItemValid(suggested[i])))

DigitLines == ItemLines(SelectSeq(Positions, LAMBDA i : ItemDigit(suggested[i])))

\* the candidate lines that survive line selection, the validity filter and
\* the degraded fallback to the first 5 unfiltered lines
Survivors == IF ValidLines # <<>> THEN ValidLines ELSE Take(DigitLines, 5)

\* the suggestion call has returned and its reply has been parsed
Parsed == venue_index >= 1

\* the venue lines handed to the enrichment loop
Handed == LoopLines(filtered_venue_lines)

\* the request has returned its document
Rendered == pc = "done" /\ result.kind = "document"

Distinct(xs) == \A i, j \in DOMAIN xs : i # j => xs[i] # xs[j]

(***************************************************************************)
(* C1                                                                      *)
(***************************************************************************)
\* C1, as stated: whatever the reply of the suggestion call, exactly 5 venue
\* candidates are handed to the enrichment loop.
C1_ExactlyFive == Parsed => Len(Handed) = 5

\* C1, amended: the enrichment loop is handed 5 candidates, except that 3 or
\* 4 surviving lines are handed over as they are, without top-up; the loop
\* enriches and renders as many venues as it was handed.
C1_FiveUnlessThreeOrFour ==
    Parsed =>
        /\ Len(Handed) = (IF Len(Survivors) \in {3, 4} THEN Len(Survivors) ELSE 5)
        /\ venue_index <= Len(Handed)
        /\ Rendered => Len(result.blocks) = Len(Handed)

\* four lines survived and the request ran to its document
C1_Witness == Rendered /\ Len(Survivors) = 4 /\ Len(result.blocks) = 4

(***************************************************************************)
(* C2                                                                      *)
(***************************************************************************)
\* the reply is exactly 5 lines "N. Name - Address"
FiveVenueReply == Len(suggested) = 5 /\ \A i \in DOMAIN suggested : suggested[i].kind = "venue"

NameAndAddress(x) == <<x.name, x.address>>

\* C2: for a reply of exactly 5 well-formed lines "N. Name - Address" (the
\* name holds no " - " and does not start with "- "), the 5 candidates are
\* the lines of the reply, their names and addresses are the Name and the
\* Address of lines 1..5 in that order with the "N. " removed, and no
\* built-in venue is added.
C2_FiveWellFormedLines ==
    (Parsed /\ FiveVenueReply) =>
        /\ filtered_venue_lines = [i \in 1..5 |-> ItemLine(i, suggested[i])]
        /\ \A i \in 1..5 : ~InSeq(filtered_venue_lines[i], fallback_venues)
        /\ venue_name = suggested[venue_index].name
        /\ venue_address = suggested[venue_index].address
        /\ ~Rendered =>
              \A k \in DOMAIN detailed_results :
                  /\ detailed_results[k].venue_recommendation.venue_name = suggested[k].name
                  /\ detailed_results[k].venue_recommendation.venue_address
                         = suggested[k].address
        /\ Rendered =>
              /\ Len(result.blocks) = 5
              /\ \A i \in 1..5 : \E k \in 1..5 :
                    /\ result.blocks[k].venue_name = suggested[i].name
                    /\ result.blocks[k].venue_address = suggested[i].address

\* five well-formed lines, one with ". " in its name and " - " in its
\* address, all five enriched
C2_Witness ==
    /\ FiveVenueReply
    /\ pc = "leg" /\ venue_index = 5
    /\ Len(detailed_results) = 4
    /\ \E i, j \in 1..5 : suggested[i] = ItemStJ /\ suggested[j] = ItemA

(***************************************************************************)
(* C3                                                                      *)
(***************************************************************************)
\* C3, as stated: when no line of the reply passes the validity filter, the
\* candidates are exactly the 5 built-in venues, whether or not the reply
\* has digit-bearing lines.
C3_AlwaysBuiltIn ==
    (Parsed /\ ValidLines = <<>>) => filtered_venue_lines = fallback_venues

\* C3, amended: when the reply has no digit-bearing line, the candidates are
\* exactly the 5 built-in venues, pairwise distinct; when it has
\* digit-bearing lines that all fail the filter, the first 5 of them are
\* kept unfiltered, and built-in venues follow them (up to 5 in all) only
\* when they are fewer than 3.
C3_BuiltInOrUnfiltered ==
    (Parsed /\ ValidLines = <<>>) =>
        /\ DigitLines = <<>> =>
              /\ filtered_venue_lines = fallback_venues
              /\ Len(filtered_venue_lines) = 5
              /\ Distinct(filtered_venue_lines)
        /\ DigitLines # <<>> =>
              filtered_venue_lines =
                  Take(DigitLines, 5)
                  \o (IF Len(DigitLines) < 3
                      THEN Take(fallback_venues, 5 - Len(DigitLines)) ELSE <<>>)

\* a reply of prose lines only, answered with the built-in venues
C3_Witness ==
    /\ Rendered
    /\ Len(suggested) >= 2
    /\ DigitLines = <<>>
    /\ Len(result.blocks) = 5

(***************************************************************************)
(* C4                                                                      *)
(***************************************************************************)
\* the built-in venues that are not among the survivors, in list order
Absent == SelectSeq(fallback_venues, LAMBDA f : ~InSeq(f, Survivors))

RECURSIVE SumOf(_)
SumOf(xs) == IF xs = <<>> THEN 0 ELSE Head(xs) + SumOf(Tail(xs))

\* the largest of xs and 0
LargestOf(xs) ==
    IF xs = <<>> THEN 0
    ELSE CHOOSE m \in {xs[i] : i \in DOMAIN xs} : \A i \in DOMAIN xs : xs[i] <= m

DetailHasSeconds(detail) == HasSeconds(detail.travel_info)

\* the authoritative durations of the legs of a block, in participant order,
\* the legs without one left out
Durations(block) ==
    LET with == SelectSeq(block.travel_details, DetailHasSeconds)
    IN  [k \in DOMAIN with |-> with[k].travel_info.raw_duration_seconds]

(***************************************************************************)
(* C5                                                                      *)
(***************************************************************************)
\* C5: for every venue, twice the suitability score is 3 * M + 2 * S, where
\* S is the sum and M the maximum of the authoritative durations of its
\* legs; a leg without one adds nothing, and a venue whose legs all failed
\* scores 0. Durations [600, 1200] score 3600 and [300, 300] score 1050.
C5_Score ==
    \A k \in DOMAIN detailed_results :
        LET e == detailed_results[k]
            durations == Durations(e.venue_recommendation)
        IN  /\ e.suitability_score_times2 = 3 * LargestOf(durations) + 2 * SumOf(durations)
            /\ durations = <<>> => e.suitability_score_times2 = 0
            /\ durations = <<600, 1200>> => e.suitability_score_times2 = 2 * 3600
            /\ durations = <<300, 300>> => e.suitability_score_times2 = 2 * 1050

\* a document with the venue of durations [600, 1200] and a venue of two
\* legs of which one failed
C5_Witness ==
    /\ Rendered
    /\ \E k \in DOMAIN detailed_results :
          Durations(detailed_results[k].venue_recommendation) = <<600, 1200>>
    /\ \E k \in DOMAIN detailed_results :
          LET block == detailed_results[k].venue_recommendation
          IN  Len(block.travel_details) = 2 /\ Len(Durations(block)) = 1

(***************************************************************************)
(* C6                                                                      *)
(***************************************************************************)
\* sorted holds the elements of results, in non-decreasing order of score,
\* those of equal score in the order they have in results
StableSorted(sorted, results) ==
    /\ Len(sorted) = Len(results)
    /\ \E p \in Permutations(DOMAIN results) :
          /\ \A k \in DOMAIN sorted : sorted[k] = results[p[k]]
          /\ \A k, l \in DOMAIN sorted :
                k < l =>
                    /\ sorted[k].suitability_score_times2 <= sorted[l].suitability_score_times2
                    /\ sorted[k].suitability_score_times2 = sorted[l].suitability_score_times2
                           => p[k] < p[l]

\* C6: when the last venue has been enriched, the sorted results are the
\* enriched venues (those enriched before, in the order they were parsed,
\* and the last one) in non-decreasing order of score, venues of equal score
\* in the order they were parsed; the document holds their blocks in that
\* order.
C6_StableAscending ==
    [][(pc = "leg" /\ pc' = "done") =>
          /\ \E last \in {detailed_results'[k] : k \in DOMAIN detailed_results'} :
                StableSorted(detailed_results', Append(detailed_results, last))
          /\ result'.kind = "document"
          /\ result'.blocks = [k \in DOMAIN detailed_results' |->
                                  detailed_results'[k].venue_recommendation]]_vars

\* a document of 5 venues, two of them of equal score, whose first block is
\* not the first venue parsed
C6_Witness ==
    /\ Rendered
    /\ Len(result.blocks) = 5
    /\ \E k, l \in DOMAIN detailed_results :
          /\ k < l
          /\ detailed_results[k].suitability_score_times2
                 = detailed_results[l].suitability_score_times2
          /\ detailed_results[k].venue_recommendation
                 # detailed_results[l].venue_recommendation
    /\ result.blocks[1].venue_name # VenueFields(Handed[1]).name

(***************************************************************************)
(* C7                                                                      *)
(***************************************************************************)
\* C7: for every venue, the average shown is floor(floor(S / n) / 60) and
\* the longest journey shown is floor(M / 60), n being the number of
\* participants, those whose leg failed included. Durations [90, 150] of two
\* participants show 2 and 2; S = 0 shows 0 and 0.
C7_Minutes ==
    \A k \in DOMAIN detailed_results :
        LET block == detailed_results[k].venue_recommendation
            durations == Durations(block)
        IN  /\ Len(block.travel_details) = Len(locations)
            /\ block.avg_time_minutes = (SumOf(durations) \div Len(locations)) \div 60
            /\ block.max_time_minutes = LargestOf(durations) \div 60
            /\ (durations = <<90, 150>> /\ Len(locations) = 2) =>
                  block.avg_time_minutes = 2 /\ block.max_time_minutes = 2
            /\ SumOf(durations) = 0 =>
                  block.avg_time_minutes = 0 /\ block.max_time_minutes = 0

\* a document with the venue of durations [90, 150] and a venue of two legs
\* of which one failed
C7_Witness ==
    /\ Rendered
    /\ Len(locations) = 2
    /\ \E k \in DOMAIN result.blocks : Durations(result.blocks[k]) = <<90, 150>>
    /\ \E k \in DOMAIN result.blocks :
          Len(result.blocks[k].travel_details) = 2 /\ Len(Durations(result.blocks[k])) = 1

(***************************************************************************)
(* C8                                                                      *)
(***************************************************************************)
\* C8: a follow-up asked with an empty or blank context issues no
\* text-generation call, and returns the "ask for recommendations first"
\* message.
C8_NoCallWithoutContext ==
    (request.operation = "handle_followup_query" /\ Strip(request.context) = <<>>) =>
        text_calls = 0

(***************************************************************************)
(* C9                                                                      *)
(***************************************************************************)
\* C9: when OPENAI_API_KEY is not set, a recommendation request has
\* returned the error string for it, and no text-generation call, no
\* directions lookup and no outbound request has been made.
C9_FailsClosed ==
    (request.operation = "get_recommendations" /\ ~openai_api_key) =>
        /\ pc = "done"
        /\ result = ErrorResult("OPENAI_API_KEY not found in environment variables.")
        /\ text_calls = 0
        /\ directions_calls = 0
        /\ http_requests = 0

\* a request of two participants made without the key
C9_Witness ==
    /\ request.operation = "get_recommendations"
    /\ ~openai_api_key
    /\ Len(locations) = 2
    /\ result.kind = "error"

(***************************************************************************)
(* C10                                                                     *)
(***************************************************************************)
\* C10: every directions lookup returns a leg with the deep link of its
\* origin, destination and mode. The leg has the authoritative seconds
\* exactly when the key is set and the request succeeded; in every other
\* case (no key, transport error, HTTP error, status not OK, no route,
\* malformed response) its departure and arrival are "Unknown". Without the
\* key no request is sent.
C10_DegradedLeg ==
    lookup.made =>
        LET succeeded == google_maps_api_key /\ lookup.net = "ok"
        IN  /\ lookup.mode \in GoogleModes
            /\ "google_maps_link" \in DOMAIN travel_info
            /\ travel_info.google_maps_link.origin_encoded = QuotePlus(lookup.origin)
            /\ travel_info.google_maps_link.destination_encoded = QuotePlus(lookup.destination)
            /\ travel_info.google_maps_link.google_mode = lookup.mode
            /\ HasSeconds(travel_info) <=> succeeded
            /\ ~succeeded =>
                  /\ travel_info.departure_time = Unknown
                  /\ travel_info.arrival_time = Unknown
            /\ ~google_maps_api_key => http_request = NoRequest /\ http_requests = 0
            /\ google_maps_api_key => http_request.sent /\ http_requests = directions_calls
            /\ travel_details # <<>> =>
                  travel_details[Len(travel_details)].travel_info = travel_info

\* a walking lookup whose response was malformed, with the key set
C10_Witness ==
    /\ lookup.made
    /\ google_maps_api_key
    /\ lookup.net = "malformed"
    /\ lookup.mode = "walking"
    /\ ~HasSeconds(travel_info)

(***************************************************************************)
(* C11                                                                     *)
(***************************************************************************)
\* the sentences of lines 220 and 222 that stand in for a failed description
GenericDescriptions ==
    {"Great venue for your meetup.", "Excellent venue in a convenient location."}

\* C11: a request that has passed the key check ends only with the document
\* or with the error string of the top-level handler, never with an
\* exception leaving it; and a description call that fails does not end the
\* request: the generic sentence is kept for the venue and the venue's legs
\* are looked up next.
C11_CaughtAtTopLevel ==
    [][(request.operation = "get_recommendations" /\ pc \in {"suggest", "desc", "leg"}) =>
          /\ pc' \in {"desc", "leg", "done"}
          /\ pc' = "done" =>
                \/ result'.kind = "document"
                \/ result' = ErrorResult("Error getting detailed recommendations")
          /\ (pc = "desc" /\ faults' = faults + 1) =>
                /\ venue_description' \in GenericDescriptions
                /\ pc' = "leg"
                /\ person_index' = 1
                /\ result' = result
                /\ venue_vars' = venue_vars]_vars

\* an exception was caught while the second or a later venue was enriched,
\* after a venue whose description call had failed was processed
C11_Witness ==
    /\ pc = "done"
    /\ result = ErrorResult("Error getting detailed recommendations")
    /\ venue_index >= 2
    /\ \E k \in DOMAIN detailed_results :
          detailed_results[k].venue_recommendation.venue_description \in GenericDescriptions

(***************************************************************************)
(* C12                                                                     *)
(***************************************************************************)
\* the character a percent code of form-encoding stands for
PercentDecoded(hi, lo) ==
    CASE <<hi, lo>> = <<"2", "C">> -> ","
      [] <<hi, lo>> = <<"2", "7">> -> "'"
      [] <<hi, lo>> = <<"2", "6">> -> "&"
      [] <<hi, lo>> = <<"2", "F">> -> "/"
      [] <<hi, lo>> = <<"3", "A">> -> ":"
      [] <<hi, lo>> = <<"0", "A">> -> "\n"
      [] <<hi, lo>> = <<"0", "9">> -> "\t"
      [] <<hi, lo>> = <<"0", "D">> -> "\r"
      [] OTHER -> "?"

\* form-decoding: "+" is a space, "%XY" the character of code XY
RECURSIVE UnquotePlus(_)
UnquotePlus(s) ==
    IF s = <<>> THEN <<>>
    ELSE IF s[1] = "+" THEN <<" ">> \o UnquotePlus(Tail(s))
    ELSE IF s[1] = "%" /\ Len(s) >= 3
         THEN <<PercentDecoded(s[2], s[3])>> \o UnquotePlus(SubSeq(s, 4, Len(s)))
    ELSE <<s[1]>> \o UnquotePlus(Tail(s))

\* s holds none of the characters that form-encoding must not leave as they are
NothingRaw(s) == \A i \in DOMAIN s : s[i] \notin {" ", ",", "'", "&", "/", ":", "\n", "\t", "\r"}

\* C12: on every return path of a directions lookup (no key, success, status
\* not OK, exception) the deep link is
\* https://www.google.com/maps/dir/<enc(origin)>/<enc(destination)>/@?hl=en&travelmode=<m>
\* with enc the form-encoding and m the mode when it is driving, transit,
\* walking or bicycling and driving otherwise. "A, B" is encoded A%2C+B and
\* "C, D" is encoded C%2C+D.
C12_DeepLink ==
    lookup.made =>
        LET link == travel_info.google_maps_link
        IN  /\ link.base = "https://www.google.com/maps/dir/"
            /\ link.query = "@?hl=en&travelmode="
            /\ link.google_mode =
                   (IF lookup.mode \in {"driving", "transit", "walking", "bicycling"}
                    THEN lookup.mode ELSE "driving")
            /\ NothingRaw(link.origin_encoded)
            /\ NothingRaw(link.destination_encoded)
            /\ UnquotePlus(link.origin_encoded) = lookup.origin
            /\ UnquotePlus(link.destination_encoded) = lookup.destination
            /\ lookup.origin = <<"A", ",", " ", "B">> =>
                  link.origin_encoded = <<"A", "%", "2", "C", "+", "B">>
            /\ lookup.destination = <<"C", ",", " ", "D">> =>
                  link.destination_encoded = <<"C", "%", "2", "C", "+", "D">>

\* a lookup from "A, B" to "C, D" in a mode the service does not know, whose
\* request failed in transport
C12_Witness ==
    /\ lookup.made
    /\ lookup.origin = <<"A", ",", " ", "B">>
    /\ lookup.destination = <<"C", ",", " ", "D">>
    /\ lookup.mode = "cycling"
    /\ lookup.net = "transport_error"
    /\ travel_info.google_maps_link.google_mode = "driving"

(***************************************************************************)
(* C13                                                                     *)
(***************************************************************************)
\* the item at position i of the reply is one whose commas and tokens are known
Measured(i) == "commas" \in DOMAIN suggested[i]

\* C13: a candidate line is accepted by the validity filter exactly when it
\* has at most 10 commas, at most 8 whitespace-delimited tokens with a digit
\* and at most 200 characters; a line with 12 commas is rejected whatever
\* its tokens and its length. (The first line of each reply is a venue line,
\* so that the accepted lines are the ones found among the candidates.)
C13_Filter ==
    Parsed =>
        \A i \in DOMAIN suggested :
            Measured(i) =>
                LET item == suggested[i]
                    accepted == InSeq(item.raw, filtered_venue_lines)
                IN  /\ InSeq(item.raw, venue_lines)
                    /\ accepted <=> /\ item.commas <= 10
                                    /\ item.tokens <= 8
                                    /\ Len(item.raw) <= 200
                    /\ item.commas = 12 => ~accepted

\* a reply with a line of 12 commas and one token, and a line of exactly 200
\* characters, which is accepted
C13_Witness ==
    /\ Parsed
    /\ \E i, j \in DOMAIN suggested :
          /\ Measured(i) /\ suggested[i].commas = 12 /\ suggested[i].tokens = 1
          /\ Measured(j) /\ Len(suggested[j].raw) = 200
          /\ InSeq(suggested[j].raw, filtered_venue_lines)

(***************************************************************************)
(* C14                                                                     *)
(***************************************************************************)
\* the line of the item at position i of the reply is among the candidates
Candidate(i) == InSeq(ItemLine(i, suggested[i]), filtered_venue_lines)

\* the candidates that follow the first n
After(n) == SubSeq(filtered_venue_lines, n + 1, Len(filtered_venue_lines))

\* the candidates are the lines of base; when those are fewer than 3,
\* built-in venues follow them, up to 5 candidates in all
ToppedUp(base) ==
    /\ Len(filtered_venue_lines) >= Len(base)
    /\ SubSeq(filtered_venue_lines, 1, Len(base)) = base
    /\ \A k \in DOMAIN After(Len(base)) : InSeq(After(Len(base))[k], fallback_venues)
    /\ Len(After(Len(base))) = (IF Len(base) < 3 THEN 5 - Len(base) ELSE 0)

\* C14: the candidates come from the accepted lines, else from the
\* unfiltered lines, else from the built-in list, in that order. When the
\* filter accepts a line, the accepted lines are the candidates and the
\* lines it rejects are none. When it rejects every digit-bearing line, the
\* first 5 digit-bearing lines, in their order, are the candidates. In
\* both cases built-in venues follow only when the candidates are fewer
\* than 3: the top-up looks at the unfiltered lines, not at the empty result
\* of the filter. A line without a digit is never a candidate.
C14_Tiers ==
    Parsed =>
        /\ \A i \in DOMAIN suggested : ~ItemDigit(suggested[i]) => ~Candidate(i)
        /\ ValidLines # <<>> =>
              /\ ToppedUp(ValidLines)
              /\ \A i \in DOMAIN suggested : ~ItemValid(suggested[i]) => ~Candidate(i)
        /\ ValidLines = <<>> => ToppedUp(Take(DigitLines, 5))

\* a reply of 6 digit-bearing lines that all fail the filter and a line
\* without a digit: the first 5 digit-bearing lines are the candidates, and
\* no built-in venue is added
C14_Witness ==
    /\ Rendered
    /\ ValidLines = <<>>
    /\ Len(DigitLines) = 6
    /\ Len(suggested) = 7
    /\ filtered_venue_lines = Take(DigitLines, 5)
    /\ After(0) = filtered_venue_lines
    /\ Len(result.blocks) = 5

(***************************************************************************)
(* C15                                                                     *)
(***************************************************************************)
\* C15: the venue being enriched has the name and the address its reply line
\* was written with: for a line with " - ", the text before the first " - "
\* less a leading "N. ", and everything after the first " - "; a name with
\* ". " in it and the name of a line without numbering are kept whole. For
\* a line without " - ", the name is the text before the first comma of
\* what follows the first ". ".
C15_FieldSplit ==
    (Parsed /\ venue_index <= Len(suggested)) =>
        LET item == suggested[venue_index]
        IN  /\ Handed[venue_index] = ItemLine(venue_index, item)
            /\ venue_name = item.name
            /\ venue_address = item.address

(***************************************************************************)
(* C16                                                                     *)
(***************************************************************************)
\* the request a lookup in mode driving sends for the leg of the last lookup
DrivingRequest ==
    [sent |-> TRUE, origin |-> lookup.origin, destination |-> lookup.destination,
     mode |-> "driving", units |-> "metric", departure_time |-> <<meeting_datetime>>,
     alternatives |-> FALSE]

\* C16: every directions lookup of a recommendation request is made with one
\* of the modes driving, transit, walking, bicycling: the mode the
\* participant chose, and driving for a participant who chose "Any". The
\* lookup for "Any" sends the request a lookup for driving sends: mode
\* driving, with the departure time.
C16_ResolvedMode ==
    /\ lookup.made => lookup.mode \in {"driving", "transit", "walking", "bicycling"}
    /\ \A k \in DOMAIN travel_details :
          LET detail == travel_details[k]
          IN  /\ detail.actual_transport =
                     (IF detail.transport = "Any" THEN "driving" ELSE detail.transport)
              /\ detail.travel_info.google_maps_link.google_mode = detail.actual_transport
    /\ travel_details # <<>> =>
          LET detail == travel_details[Len(travel_details)]
          IN  /\ lookup.mode = detail.actual_transport
              /\ google_maps_api_key =>
                    /\ http_request.mode = detail.actual_transport
                    /\ detail.transport \in {"Any", "driving"} => http_request = DrivingRequest

\* the lookup of a participant who chose "Any" has sent its request
C16_Witness ==
    /\ lookup.made
    /\ google_maps_api_key
    /\ travel_details # <<>>
    /\ travel_details[Len(travel_details)].transport = "Any"
    /\ http_request = DrivingRequest

(***************************************************************************)
(* C17                                                                     *)
(***************************************************************************)
\* the transport preferences get_recommendations was called with
Supplied == request.args.transport_preferences

\* every venue enriched so far has one leg per participant, in the order of
\* the participants, each in the mode kept for its participant
OneLegPerParticipant ==
    \A v \in DOMAIN detailed_results :
        LET details == detailed_results[v].venue_recommendation.travel_details
        IN  /\ Len(details) = Len(locations)
            /\ \A k \in DOMAIN details :
                  /\ details[k].person_number = k
                  /\ details[k].transport = transport_preferences[k]

\* C17: once get_recommendations has normalised its arguments there are as
\* many transport modes as locations, whatever the arguments: all "driving"
\* when no list was given, and otherwise the modes given, in their order,
\* followed by "driving" for the participants left; and every venue has one
\* leg per participant, in the order of the participants.
C17_OneModePerLocation ==
    request.operation = "get_recommendations" =>
        /\ Len(transport_preferences) = Len(locations)
        /\ ~Supplied.given => \A k \in DOMAIN transport_preferences :
                                  transport_preferences[k] = "driving"
        /\ Supplied.given =>
              \A k \in DOMAIN transport_preferences :
                  transport_preferences[k] =
                      (IF k <= Len(Supplied.list) THEN Supplied.list[k] ELSE "driving")
        /\ OneLegPerParticipant

(***************************************************************************)
(* C18                                                                     *)
(***************************************************************************)
\* the legs looked up so far: those of the venues enriched and those of the
\* venue being enriched
LegsLookedUp ==
    Len(detailed_results) * Len(locations) + (IF pc = "leg" THEN Len(travel_details) ELSE 0)

\* C18: no call is made twice. Once the reply of the suggestion call is
\* parsed, the text-generation calls made are the suggestion call and one
\* description call for each venue reached, and the directions lookups made
\* are one for each leg looked up, whichever of the calls failed; each
\* lookup has sent one request when the directions key is set, and none
\* when it is not. In the rendered document that is 1 suggestion call, one
\* description call per venue and one lookup per venue and participant.
C18_NoRetry ==
    (request.operation = "get_recommendations" /\ Parsed) =>
        /\ text_calls = 1 + venue_index
        /\ directions_calls = LegsLookedUp
        /\ http_requests = (IF google_maps_api_key THEN directions_calls ELSE 0)
        /\ Rendered =>
              /\ text_calls = 1 + Len(Handed)
              /\ directions_calls = Len(Handed) * Len(locations)

\* a document of 5 venues for 2 participants, with a call that failed on
\* the way: 6 text-generation calls and 10 lookups
C18_Witness ==
    /\ Rendered
    /\ faults >= 1
    /\ Len(Handed) = 5
    /\ Len(locations) = 2
    /\ text_calls = 6
    /\ directions_calls = 10

(***************************************************************************)
(* C19                                                                     *)
(***************************************************************************)
\* the place of the request in the sequence suggestion, then for each venue in
\* turn its description and its legs in the order of the participants, then
\* the end
Place ==
    LET per_venue == Len(locations) + 1
    IN  CASE pc = "idle" -> 0
          [] pc = "suggest" -> 1
          [] pc = "desc" -> 1 + (venue_index - 1) * per_venue + 1
          [] pc = "leg" -> 1 + (venue_index - 1) * per_venue + 1 + person_index
          [] pc = "done" -> 1 + MaxVenues * per_venue + 1
          [] OTHER -> 0

\* the suggestion call is over before the reply is parsed, and the reply is
\* parsed before a description or a directions call; a venue is scored when
\* each of its legs has come back from its lookup; the document is made when
\* every venue handed to the loop is scored
InOrder ==
    /\ pc = "suggest" => ~Parsed /\ text_calls = 1 /\ directions_calls = 0
    /\ (pc \in {"desc", "leg"} \/ directions_calls > 0) =>
          /\ Parsed
          /\ venue_index \in DOMAIN Handed
          /\ Len(detailed_results) = (IF Rendered THEN venue_index ELSE venue_index - 1)
    /\ \A v \in DOMAIN detailed_results :
          LET details == detailed_results[v].venue_recommendation.travel_details
          IN  /\ Len(details) = Len(locations)
              /\ \A k \in DOMAIN details : "google_maps_link" \in DOMAIN details[k].travel_info
    /\ Rendered => Len(detailed_results) = Len(Handed) /\ venue_index = Len(Handed)

\* C19: a recommendation request goes through its steps in one direction:
\* every step moves it forward in the sequence suggestion call, parsing,
\* then venue by venue the description call and the lookups, then sorting
\* and rendering, and no step is gone through twice; a venue is scored only
\* at the return of the lookup of its last participant; and, each call
\* returning or failing, the request ends with the document or with an
\* error string.
C19_Linear ==
    /\ []InOrder
    /\ [][request'.operation = "get_recommendations" =>
             /\ Place' > Place
             /\ Len(detailed_results') # Len(detailed_results) =>
                   /\ pc = "leg"
                   /\ person_index = Len(locations)
                   /\ Len(travel_details') = Len(locations)
                   /\ Len(detailed_results') = Len(detailed_results) + 1]_vars
    /\ (request.operation = "get_recommendations") ~> (pc = "done" /\ result.kind \in {"document", "error"})

\* a document of 5 venues for 2 participants, with a call that failed on
\* the way
C19_Witness ==
    /\ Rendered
    /\ Len(result.blocks) = 5
    /\ Len(locations) = 2
    /\ faults >= 1
    /\ directions_calls = 10

(***************************************************************************)
(* The conversation history of a session                                   *)
(***************************************************************************)
\* the verdicts of input validation that turn a submission down
Rejections == {"missing location", "empty area", "no activity", "empty question"}

\* this step is a submission that validation turns down
RejectedStep == submission' # submission /\ submission'.verdict \in Rejections

\* this step is main() taking the value its call for the form returned
CompletedStep(form) ==
    pc = "done" /\ pc' = "idle" /\ submission.form = form /\ result.kind # "raised"

LastTurn(history) == history[Len(history)]

\* C20: across the query and follow-up submissions of a session the history
\* is append-only: every turn it holds stays where it is and as it is, a
\* completed query puts one query turn at the end, a completed follow-up puts
\* one followup turn at the end, no other step changes the history, and a
\* submission turned down by validation (a missing location, an empty area,
\* an empty question) leaves the history, the stored recommendations and the
\* venue locations as they were.
C20_AppendOnly ==
    [][/\ Len(conversation_history') >= Len(conversation_history)
       /\ SubSeq(conversation_history', 1, Len(conversation_history)) = conversation_history
       /\ CompletedStep("venue_form") =>
            /\ Len(conversation_history') = Len(conversation_history) + 1
            /\ LastTurn(conversation_history').type = "query"
            /\ LastTurn(conversation_history').locations = submission.fields.locations
            /\ LastTurn(conversation_history').response = result
       /\ CompletedStep("followup_form") =>
            /\ Len(conversation_history') = Len(conversation_history) + 1
            /\ LastTurn(conversation_history').type = "followup"
            /\ LastTurn(conversation_history').query = submission.fields
            /\ LastTurn(conversation_history').response = result
       /\ ~(CompletedStep("venue_form") \/ CompletedStep("followup_form")) =>
            UNCHANGED conversation_history
       /\ RejectedStep => UNCHANGED session_vars]_vars

\* a query, a follow-up and a second, different query were completed, and a
\* venue form without its area was turned down after them
C20_Witness ==
    /\ Len(conversation_history) = 3
    /\ conversation_history[1].type = "query"
    /\ conversation_history[2].type = "followup"
    /\ conversation_history[3].type = "query"
    /\ conversation_history[3].meeting_area # conversation_history[1].meeting_area
    /\ recommendations = conversation_history[3].response
    /\ recommendations.kind = "document"
    /\ submission.verdict = "empty area"

(***************************************************************************)
(* How many venues are enriched and rendered, and in which order           *)
(***************************************************************************)
\* the place of a built-in venue in fallback_venues
FallbackIndex(line) == CHOOSE i \in DOMAIN fallback_venues : fallback_venues[i] = line

\* the surviving lines that reach the enrichment loop
Kept == Take(Survivors, MaxVenues)

\* C21: whatever the reply of the suggestion call (empty, without a line that
\* holds a digit, with more than 5 valid lines), at least 3 and at most 5
\* venues are handed to the enrichment loop, no more than these are enriched,
\* and a rendered document holds one block for each of them, so it is never
\* without venues; the surviving lines come first in the order of the reply,
\* built-in venues follow them in the order of their list, and until the
\* sort the enriched venues stand in that same order.
C21_ThreeToFive ==
    Parsed =>
        /\ Len(Handed) \in MinVenues..MaxVenues
        /\ venue_index <= Len(Handed)
        /\ Len(detailed_results) <= Len(Handed)
        /\ Rendered => Len(result.blocks) = Len(Handed) /\ result.blocks # <<>>
        /\ SubSeq(Handed, 1, Len(Kept)) = Kept
        /\ \A k \in DOMAIN Handed :
              k > Len(Kept) => InSeq(Handed[k], fallback_venues)
        /\ \A k, l \in DOMAIN Handed :
              (Len(Kept) < k /\ k < l) => FallbackIndex(Handed[k]) < FallbackIndex(Handed[l])
        /\ ~Rendered =>
              \A k \in DOMAIN detailed_results :
                 /\ detailed_results[k].venue_recommendation.venue_name
                        = VenueFields(Handed[k]).name
                 /\ detailed_results[k].venue_recommendation.venue_address
                        = VenueFields(Handed[k]).address

\* a reply of more than 5 valid lines was rendered with 5 venues
C21_Witness ==
    /\ Rendered
    /\ Len(ValidLines) > MaxVenues
    /\ Len(result.blocks) = MaxVenues
    /\ Handed = Kept

(***************************************************************************)
(* The context of a follow-up                                              *)
(***************************************************************************)
\* turn i of the history is a query and no later turn is
MostRecentQuery(i) ==
    /\ i \in DOMAIN conversation_history
    /\ conversation_history[i].type = "query"
    /\ \A j \in DOMAIN conversation_history :
          j > i => conversation_history[j].type # "query"

\* main() has accepted a follow-up question and built its context
FollowupAccepted == submission.form = "followup_form" /\ submission.verdict = "accepted"

\* C22: whenever recommendations are stored, so that a follow-up can be
\* submitted, the history holds a query turn; the context of an accepted
\* follow-up is built from the most recent query turn, whether the last turn
\* is a query or a follow-up, and holds that turn's locations, activity,
\* mood, area, time and response, the response being the stored
\* recommendations, a document or an error string alike; so the context is
\* never empty and the responder is asked with a context.
C22_LatestQueryContext ==
    /\ Truthy(recommendations) =>
          \E i \in DOMAIN conversation_history :
             MostRecentQuery(i) /\ conversation_history[i].response = recommendations
    /\ FollowupAccepted =>
          /\ submission.context.heading # ""
          /\ \E i \in DOMAIN conversation_history :
                /\ MostRecentQuery(i)
                /\ submission.context.locations
                       = Join(conversation_history[i].locations, <<",", " ">>)
                /\ submission.context.activity = conversation_history[i].activity
                /\ submission.context.mood = conversation_history[i].mood
                /\ submission.context.meeting_area = conversation_history[i].meeting_area
                /\ submission.context.meeting_datetime
                       = conversation_history[i].meeting_datetime
                /\ submission.context.response = conversation_history[i].response
          /\ submission.context.response = recommendations
    /\ request.operation = "handle_followup_query" =>
          /\ Strip(request.context) # <<>>
          /\ pc = "followup" => followup_prompt = "with_context"

\* two different queries and a follow-up were completed, the second query's
\* response being an error string, and the responder is asked again
C22_Witness ==
    /\ Len(conversation_history) = 3
    /\ conversation_history[1].type = "query"
    /\ conversation_history[2].type = "query"
    /\ conversation_history[3].type = "followup"
    /\ conversation_history[1].meeting_area # conversation_history[2].meeting_area
    /\ conversation_history[1].response.kind = "document"
    /\ conversation_history[2].response.kind = "error"
    /\ FollowupAccepted
    /\ pc = "followup"
    /\ submission.context.response = conversation_history[2].response
====
